---- MODULE Spec2Model ----
(***************************************************************************)
(* The dynamic re-render bridge of stpl (src/src/lib.rs, lines 171-260 and *)
(* 608-754): the client render_dynamic in the parent process, the          *)
(* dispatch HandleDynamic::template / handle_dynamic_impl and the guard    *)
(* (Drop for HandleDynamic) in the child process, and the three pipes and  *)
(* the environment variable between them.                                  *)
(*                                                                         *)
(* Bytes are naturals.  A pipe holds at most PipeCap bytes; a write to a   *)
(* full pipe blocks, a write to a pipe whose read end is closed fails      *)
(* (the Rust runtime ignores SIGPIPE, so the write returns EPIPE).         *)
(***************************************************************************)
EXTENDS Integers, Sequences, FiniteSets, TLC

\* ---------------------------------------------------------------- bounds
MaxName == 2      \* longest `name` of an argument value
PipeCap == 8      \* capacity of an OS pipe, scaled down
BufCap == 4       \* capacity of the BufWriter around stdout, scaled down
MaxChain == 2     \* most template() registrations in one child binary
MaxCalls == 2     \* most calls the parent makes in one run

\* ------------------------------------------------------------ constants
EXIT_CODE_SUCCESS == 66
EXIT_CODE_FAILED == 67
EXIT_CODE_NOT_FOUND == 68

Min(a, b) == IF a < b THEN a ELSE b

Take(s, n) == SubSeq(s, 1, Min(n, Len(s)))

DropN(s, n) == SubSeq(s, Min(n, Len(s)) + 1, Len(s))

RECURSIVE Concat(_)
Concat(ss) == IF ss = << >> THEN << >> ELSE Head(ss) \o Concat(Tail(ss))

\* ------------------------------------------------- environment variables
\* A variable of the process environment is absent, holds a value that is
\* not valid Unicode, or holds a string.
Absent == [set |-> FALSE, unicode |-> FALSE, val |-> ""]

NotUnicode == [set |-> TRUE, unicode |-> FALSE, val |-> ""]

Str(s) == [set |-> TRUE, unicode |-> TRUE, val |-> s]

\* std::env::var(name): Ok(value) only for a variable that is set to valid
\* Unicode; Err(NotPresent) and Err(NotUnicode) otherwise.
EnvVar(raw) == [ok |-> raw.set /\ raw.unicode, val |-> raw.val]

\* lazy_static IS_ENV_STPL_PROD: `if let Ok(_val) = env::var("STPL_PROD")`.
IsEnvStplProdMutNonEmpty(raw) == EnvVar(raw).ok /\ EnvVar(raw).val # ""

IsEnvStplProd(raw) == EnvVar(raw).ok

\* ------------------------------------------------------------- templates
\* Five registrations: "home" (the playground's), "alt" and "stale" (both
\* registered under the key of "home"; "stale" takes () where "home" takes
\* Data), "fail" (its render function returns an error for an empty name)
\* and "boom" (takes () and panics while rendering).
TemplateIds == {"home", "alt", "stale", "fail", "boom"}

\* Template::key
Key(t) == IF t \in {"alt", "stale"} THEN "home" ELSE t

\* Template::Argument
ArgType(t) == IF t \in {"boom", "stale"} THEN "unit" ELSE "data"

Alphabet == {65}

Names == UNION {[1..n -> Alphabet] : n \in 0..MaxName}

Unit == [type |-> "unit", name |-> << >>]

Data(n) == [type |-> "data", name |-> n]

Args == {Unit} \cup {Data(n) : n \in Names}

ArgsOf(t) == {a \in Args : a.type = ArgType(t)}

Welcome == <<87, 101, 108, 99, 111, 109, 101, 32>>

Bye == <<66, 121, 101>>

X == <<120>>

\* The render function of a template, then Render::render of the value it
\* returns: the writes it makes through the Renderer, in order, and how it
\* ends: "ok", "err" (an io::Error of its own) or "panic".
RenderFn(t, a) ==
    CASE t = "home" -> [chunks |-> <<Welcome, a.name>>, end |-> "ok"]
      [] t = "alt"  -> [chunks |-> <<Bye, a.name>>, end |-> "ok"]
      [] t = "stale" -> [chunks |-> <<Bye>>, end |-> "ok"]
      [] t = "fail" -> IF a.name = << >>
                       THEN [chunks |-> <<X>>, end |-> "err"]
                       ELSE [chunks |-> <<X, a.name>>, end |-> "ok"]
      [] OTHER      -> [chunks |-> <<X>>, end |-> "panic"]

\* TemplateExt::render_static: render into a Vec<u8>, whose writes never
\* fail; Ok(v) only when the render returned Ok.
RenderStatic(t, a) ==
    [end |-> RenderFn(t, a).end, bytes |-> Concat(RenderFn(t, a).chunks)]

\* ------------------------------------------------------------ the codec
\* bincode with the Infinite size limit: () is zero bytes, a struct with
\* one String is the length as a little-endian u64, then the bytes.
RECURSIVE LEBytes(_, _)
LEBytes(n, k) == IF k = 0 THEN << >> ELSE <<n % 256>> \o LEBytes(n \div 256, k - 1)

LE64(n) == LEBytes(n, 8)

RECURSIVE FromLE(_)
FromLE(bs) == IF bs = << >> THEN 0 ELSE Head(bs) + 256 * FromLE(Tail(bs))

Serialize(a) == IF a.type = "unit" THEN << >> ELSE LE64(Len(a.name)) \o a.name

\* bincode::deserialize(&v[..]): fails on an input that ends too early;
\* bytes after the value are not looked at.
DeserializeMutOffByOne(type, bs) ==
    IF type = "unit" THEN [ok |-> TRUE, val |-> Unit]
    ELSE IF Len(bs) < 8 \/ Len(bs) - 8 < FromLE(Take(bs, 8))
         THEN [ok |-> FALSE, val |-> Unit]
         ELSE [ok |-> TRUE, val |-> Data(SubSeq(bs, 9, 7 + FromLE(Take(bs, 8))))]

Deserialize(type, bs) ==
    IF type = "unit" THEN [ok |-> TRUE, val |-> Unit]
    ELSE IF Len(bs) < 8 \/ Len(bs) - 8 < FromLE(Take(bs, 8))
         THEN [ok |-> FALSE, val |-> Unit]
         ELSE [ok |-> TRUE, val |-> Data(SubSeq(bs, 9, 8 + FromLE(Take(bs, 8))))]

\* ------------------------------------------------------------ BufWriter
\* BufWriter::write_all(chunk) on a buffer holding `buf`: what the buffer
\* holds afterwards and the bytes handed to the inner writer (stdout) now.
\* The buffer is flushed first when the chunk does not fit; a chunk of at
\* least the capacity bypasses the buffer.
BufWriteMutDropsOnFlush(buf, chunk) ==
    LET flush == Len(buf) + Len(chunk) > BufCap
        kept == IF flush THEN << >> ELSE buf
    IN  IF Len(chunk) >= BufCap
        THEN [buf |-> kept, fd |-> chunk]
        ELSE [buf |-> kept \o chunk, fd |-> << >>]

BufWrite(buf, chunk) ==
    LET flush == Len(buf) + Len(chunk) > BufCap
        kept == IF flush THEN << >> ELSE buf
        sent == IF flush THEN buf ELSE << >>
    IN  IF Len(chunk) >= BufCap
        THEN [buf |-> kept, fd |-> sent \o chunk]
        ELSE [buf |-> kept \o chunk, fd |-> sent]

\* ---------------------------------------------------------- exit status
Exited(n) == [kind |-> "code", n |-> n]

Signaled(n) == [kind |-> "signal", n |-> n]

NoStatus == [kind |-> "none", n |-> 0]

\* A Rust process whose main thread panics (unwinding) exits with 101.
PanicStatus == Exited(101)

\* With panic=abort the process is ended by SIGABRT.
AbortStatus == Signaled(6)

\* ExitStatus::code(): None for a child ended by a signal.
StatusCode(st) == [some |-> st.kind = "code", n |-> st.n]

\* ------------------------------------------------------------- outcomes
NoResult == [kind |-> "none", bytes |-> << >>, key |-> "", code |-> [some |-> FALSE, n |-> 0], stderr |-> << >>]

Ok(bytes) == [NoResult EXCEPT !.kind = "Ok", !.bytes = bytes]

NotFound(key) == [NoResult EXCEPT !.kind = "NotFound", !.key = key]

Failed(code, out, err) == [NoResult EXCEPT !.kind = "Failed", !.code = code, !.bytes = out, !.stderr = err]

Io == [NoResult EXCEPT !.kind = "Io"]

ClassifyMutZeroIsSuccess(key, st, out, err) ==
    LET code == StatusCode(st)
    IN  IF code.some /\ code.n \in {0, EXIT_CODE_SUCCESS} THEN Ok(out)
        ELSE IF code.some /\ code.n = EXIT_CODE_NOT_FOUND THEN NotFound(key)
        ELSE Failed(code, out, err)

\* The match on out.status.code() at the end of render_dynamic.
Classify(key, st, out, err) ==
    LET code == StatusCode(st)
    IN  IF code.some /\ code.n = EXIT_CODE_SUCCESS THEN Ok(out)
        ELSE IF code.some /\ code.n = EXIT_CODE_NOT_FOUND THEN NotFound(key)
        ELSE Failed(code, out, err)

\* ------------------------------------------- the executable at `path`
\* A program with the guard at the start of main (its chain of template()
\* registrations and its panic strategy), a program without it, or no
\* program at all.
\* No template is registered twice: a second registration of a template is
\* reached only when the first did not match, and then does not match either.
Chains ==
    {c \in UNION {[1..n -> TemplateIds] : n \in 0..MaxChain} :
        \A i, j \in 1..Len(c) : c[i] = c[j] => i = j}

Guarded(chain, panic) == [kind |-> "guarded", chain |-> chain, panic |-> panic]

Foreign == [kind |-> "foreign", chain |-> << >>, panic |-> "unwind"]

Missing == [kind |-> "missing", chain |-> << >>, panic |-> "unwind"]

HasBoom(chain) == \E i \in 1..Len(chain) : chain[i] = "boom"

\* The panic strategy of the build is enumerated where a panic can happen.
GuardedPrograms ==
    {Guarded(c, "unwind") : c \in Chains}
        \cup {Guarded(c, "abort") : c \in {d \in Chains : HasBoom(d)}}

Programs == GuardedPrograms \cup {Foreign, Missing}

\* Exit codes of a program's own logic.
MainExitCodes == {0, EXIT_CODE_SUCCESS, EXIT_CODE_FAILED, EXIT_CODE_NOT_FOUND}

\* Values of the environment channel of a child started by something other
\* than the client.
DirectEnvs == {Absent, NotUnicode, Str(""), Str("home"), Str("fail"), Str("boom"), Str("nonexistent")}

\* Standard input of such a child: an encoded argument, or bytes that are
\* none.
DirectInputs == {Serialize(a) : a \in Args} \cup {<<7>>}

\* Values of STPL_PROD in the parent.
ProdEnvs == {Absent, NotUnicode, Str(""), Str("1")}

\* Values of the environment channel in the parent's own environment: it
\* is absent in a parent that passed its own guard; a parent without the
\* guard may hold any.
ParentChannels == {Absent, Str("nonexistent")}

\* The environment channel of a spawned child: Command inherits the
\* parent's environment, .env(ENV_NAME, template.key()) overrides the
\* variable in the child's copy.
SpawnEnvMutInherits(inherited, key) == IF inherited.set THEN inherited ELSE Str(key)

SpawnEnv(inherited, key) == Str(key)

\* ---------------------------------------------------------------- state
VARIABLES
    stplProd,      \* STPL_PROD in the parent's environment
    parent,        \* the calling thread of the parent process
    child,         \* the child process (spawned by the client, or started directly)
    inPipe,        \* bytes in the pipe to the child's stdin
    inWriterOpen,  \* whether the write end of that pipe is open
    outPipe        \* bytes in the pipe from the child's stdout

vars == <<stplProd, parent, child, inPipe, inWriterOpen, outPipe>>

NoChild ==
    [pc |-> "none", launcher |-> "none", prog |-> Missing, env |-> Absent,
     regIdx |-> 1, tpl |-> "none", v |-> << >>, arg |-> Unit, rIdx |-> 1,
     renderRes |-> "none", bufw |-> << >>, fdq |-> << >>, unwinding |-> FALSE,
     status |-> NoStatus, stdout |-> << >>, stderr |-> << >>,
     stdoutOk |-> TRUE, stdinErr |-> FALSE,
     dispatches |-> 0, guards |-> 0, reads |-> 0, sawEof |-> FALSE, inMain |-> FALSE,
     wfail |-> FALSE, call |-> 0]

\* A process just created from `prog` with `env` as its environment channel
\* (`call`: the number of the client's call that spawned it, 0 for none).
NewChild(launcher, prog, env) ==
    [NoChild EXCEPT !.pc = IF prog.kind = "guarded" THEN "template" ELSE "main",
                    !.inMain = prog.kind # "guarded",
                    !.launcher = launcher, !.prog = prog, !.env = env,
                    !.call = IF launcher = "client" THEN parent.calls ELSE 0]

Init ==
    /\ stplProd \in ProdEnvs
    /\ \E ch \in ParentChannels : parent =
                [channel |-> ch,
                 pc |-> "idle", isProd |-> "uninit", tpl |-> "none",
                 arg |-> Unit, encoded |-> << >>, written |-> 0, out |-> << >>,
                 result |-> NoResult, calls |-> 0, spawned |-> 0,
                 panicMsg |-> ""]
    /\ child = NoChild
    /\ inPipe = << >>
    /\ inWriterOpen = FALSE
    /\ outPipe = << >>

ChildLive == child.pc \notin {"none", "exited"}

\* ------------------------------------------------------------ the client
\* The value of the lazy static: computed from the environment at its first
\* use, the cached value afterwards.
ProdNow == IF parent.isProd = "uninit" THEN IsEnvStplProd(stplProd) ELSE parent.isProd = "yes"

\* What a call does up to the spawn: with STPL_PROD, render_static and
\* return (an io::Error becomes DynamicError::Io, a panic of the render
\* function unwinds into the caller); without, serialize the argument.
\* The child of the call before, which that call waited for, is gone.
DynamicCall(t, a) ==
    LET rs == RenderStatic(t, a)
        p0 == [parent EXCEPT !.isProd = IF ProdNow THEN "yes" ELSE "no",
                             !.tpl = t, !.arg = a,
                             !.calls = @ + 1, !.out = << >>, !.written = 0,
                             !.encoded = << >>, !.result = NoResult]
    IN  /\ parent.pc \in {"idle", "returned"}
        /\ parent.calls < MaxCalls
        /\ child.launcher # "direct"
        /\ parent' = IF ProdNow
                     THEN CASE rs.end = "ok"  -> [p0 EXCEPT !.pc = "returned", !.result = Ok(rs.bytes)]
                            [] rs.end = "err" -> [p0 EXCEPT !.pc = "returned", !.result = Io]
                            [] OTHER          -> [p0 EXCEPT !.pc = "panicked", !.panicMsg = "render"]
                     ELSE [p0 EXCEPT !.pc = "spawn", !.encoded = Serialize(a)]
        /\ child' = NoChild
        /\ inPipe' = << >>
        /\ outPipe' = << >>
        /\ UNCHANGED <<stplProd, inWriterOpen>>

\* TemplateExt::render_dynamic(path, data)
CallRenderDynamic == \E t \in TemplateIds : \E a \in ArgsOf(t) : DynamicCall(t, a)

\* TemplateExt::render_dynamic_self(data): the same call, the path being
\* the parent's own executable (std::env::args_os().next()).
CallRenderDynamicSelf == \E t \in TemplateIds : \E a \in ArgsOf(t) : DynamicCall(t, a)

\* Command::new(path).env(ENV_NAME, key) ... .spawn().expect(..)
ClientSpawnMutReturnsIo ==
    /\ parent.pc = "spawn"
    /\ \E prog \in Programs :
        IF prog.kind = "missing"
        THEN /\ parent' = [parent EXCEPT !.pc = "returned", !.result = Io]
             /\ UNCHANGED <<child, inPipe, inWriterOpen, outPipe>>
        ELSE /\ parent' = [parent EXCEPT !.pc = "write", !.spawned = @ + 1]
             /\ child' = NewChild("client", prog, SpawnEnv(parent.channel, Key(parent.tpl)))
             /\ inPipe' = << >>
             /\ inWriterOpen' = TRUE
             /\ outPipe' = << >>
    /\ UNCHANGED stplProd

ClientSpawn ==
    /\ parent.pc = "spawn"
    /\ \E prog \in Programs :
        IF prog.kind = "missing"
        THEN /\ parent' = [parent EXCEPT !.pc = "panicked", !.panicMsg = "failed to execute child"]
             /\ UNCHANGED <<child, inPipe, inWriterOpen, outPipe>>
        ELSE /\ parent' = [parent EXCEPT !.pc = "write", !.spawned = @ + 1]
             /\ child' = NewChild("client", prog, SpawnEnv(parent.channel, Key(parent.tpl)))
             /\ inPipe' = << >>
             /\ inWriterOpen' = TRUE
             /\ outPipe' = << >>
    /\ UNCHANGED stplProd

\* One write() of stdin.write_all(&encoded): fails when the child has
\* closed its end (it exited), blocks while the pipe is full.
ClientWrite ==
    /\ parent.pc = "write"
    /\ parent.written < Len(parent.encoded)
    /\ IF ~ChildLive
       THEN /\ parent' = [parent EXCEPT !.pc = "panicked", !.panicMsg = "failed to write to stdin"]
            /\ inWriterOpen' = FALSE
            /\ UNCHANGED inPipe
       ELSE /\ Len(inPipe) < PipeCap
            /\ LET n == Min(PipeCap - Len(inPipe), Len(parent.encoded) - parent.written)
               IN  /\ inPipe' = inPipe \o SubSeq(parent.encoded, parent.written + 1, parent.written + n)
                   /\ parent' = [parent EXCEPT !.written = @ + n]
            /\ UNCHANGED inWriterOpen
    /\ UNCHANGED <<stplProd, child, outPipe>>

\* stdin.flush() after the whole buffer was written: nothing to do for a pipe.
ClientFlush ==
    /\ parent.pc = "write"
    /\ parent.written = Len(parent.encoded)
    /\ parent' = [parent EXCEPT !.pc = "close"]
    /\ UNCHANGED <<stplProd, child, inPipe, inWriterOpen, outPipe>>

\* child.stdin = None
ClientCloseStdin ==
    /\ parent.pc = "close"
    /\ parent' = [parent EXCEPT !.pc = "wait"]
    /\ inWriterOpen' = FALSE
    /\ UNCHANGED <<stplProd, child, inPipe, outPipe>>

\* wait_with_output reading the child's stdout.
ClientDrainMutAfterExit ==
    /\ parent.pc = "wait"
    /\ outPipe # << >>
    /\ child.pc = "exited"
    /\ parent' = [parent EXCEPT !.out = @ \o outPipe]
    /\ outPipe' = << >>
    /\ UNCHANGED <<stplProd, child, inPipe, inWriterOpen>>

ClientDrain ==
    /\ parent.pc = "wait"
    /\ outPipe # << >>
    /\ parent' = [parent EXCEPT !.out = @ \o outPipe]
    /\ outPipe' = << >>
    /\ UNCHANGED <<stplProd, child, inPipe, inWriterOpen>>

WaitReturnsMutNoWait == outPipe = << >>

\* Whether wait() may return: the child has exited (and its output, read
\* to end-of-file before, is complete).
WaitReturns == child.pc = "exited" /\ outPipe = << >>

\* wait_with_output returns the status; the match classifies it.
ClientWaitMutRetries ==
    /\ parent.pc = "wait"
    /\ WaitReturns
    /\ LET r == Classify(Key(parent.tpl), child.status, parent.out, child.stderr)
       IN  parent' = IF r.kind = "Ok"
                     THEN [parent EXCEPT !.pc = "returned", !.result = r]
                     ELSE [parent EXCEPT !.pc = "spawn", !.out = << >>, !.written = 0]
    /\ UNCHANGED <<stplProd, child, inPipe, inWriterOpen, outPipe>>

ClientWait ==
    /\ parent.pc = "wait"
    /\ WaitReturns
    /\ parent' = [parent EXCEPT !.pc = "returned",
                                !.result = Classify(Key(parent.tpl), child.status, parent.out, child.stderr)]
    /\ UNCHANGED <<stplProd, child, inPipe, inWriterOpen, outPipe>>

\* wait() itself fails: `?` turns the io::Error into DynamicError::Io.
ClientWaitFails ==
    /\ parent.pc = "wait"
    /\ WaitReturns
    /\ parent' = [parent EXCEPT !.pc = "returned", !.result = Io]
    /\ UNCHANGED <<stplProd, child, inPipe, inWriterOpen, outPipe>>

\* ------------------------------------------------------------- the child
\* A child started by something other than the client: any guarded
\* program, any value of the environment channel, any standard input
\* (complete, its write end closed), standard output and input that work
\* or fail.  The parent process plays no part in such a run: it is taken
\* with nothing set in its environment.
DirectLaunch ==
    /\ parent.pc = "idle"
    /\ parent.calls = 0
    /\ stplProd = Absent
    /\ parent.channel = Absent
    /\ child.pc = "none"
    /\ \E prog \in GuardedPrograms, env \in DirectEnvs, input \in DirectInputs, ok \in BOOLEAN, serr \in BOOLEAN :
        /\ child' = [NewChild("direct", prog, env) EXCEPT !.stdoutOk = ok, !.stdinErr = serr]
        /\ inPipe' = input
    /\ inWriterOpen' = FALSE
    /\ UNCHANGED <<stplProd, parent, outPipe>>

\* `var_name.as_str() == template.key()` under `if let Ok(var_name)`.
KeyMatches(raw, t) == EnvVar(raw).ok /\ EnvVar(raw).val = Key(t)

\* One HandleDynamic::template call: dispatch on a match, else return self.
ChildTemplateMutLastWins ==
    /\ child.pc = "template"
    /\ child.regIdx <= Len(child.prog.chain)
    /\ LET t == child.prog.chain[child.regIdx]
           later == \E j \in (child.regIdx + 1)..Len(child.prog.chain) :
                        KeyMatches(child.env, child.prog.chain[j])
       IN  child' = IF KeyMatches(child.env, t) /\ ~later
                    THEN [child EXCEPT !.pc = "read", !.tpl = t, !.dispatches = @ + 1]
                    ELSE [child EXCEPT !.regIdx = @ + 1]
    /\ UNCHANGED <<stplProd, parent, inPipe, inWriterOpen, outPipe>>

ChildTemplate ==
    /\ child.pc = "template"
    /\ child.regIdx <= Len(child.prog.chain)
    /\ LET t == child.prog.chain[child.regIdx]
       IN  child' = IF KeyMatches(child.env, t)
                    THEN [child EXCEPT !.pc = "read", !.tpl = t, !.dispatches = @ + 1]
                    ELSE [child EXCEPT !.regIdx = @ + 1]
    /\ UNCHANGED <<stplProd, parent, inPipe, inWriterOpen, outPipe>>

GuardFiresMutInverted(raw) == EnvVar(raw).ok /\ EnvVar(raw).val = ""

GuardFiresMutAlways(raw) == TRUE

\* The condition of Drop for HandleDynamic: the channel is set and not empty.
GuardFires(raw) == EnvVar(raw).ok /\ EnvVar(raw).val # ""

NotFoundLine(key) == [msg |-> "Couldn't find dynamic template by key", key |-> key]

FailedLine == [msg |-> "Dynamic template process failed", key |-> ""]

PanicLine == [msg |-> "thread 'main' panicked", key |-> ""]

\* Drop for HandleDynamic.  It runs when the guard goes out of scope at the
\* end of the chain, and also when a panic of a render function unwinds
\* through template(), which owns `self`.
HandleDynamicDrop ==
    /\ \/ child.pc = "template" /\ child.regIdx > Len(child.prog.chain)
       \/ child.pc = "unwind"
    /\ child' = IF GuardFires(child.env)
                THEN [child EXCEPT !.pc = "exited", !.guards = @ + 1,
                                   !.stderr = Append(@, NotFoundLine(EnvVar(child.env).val)),
                                   !.status = Exited(EXIT_CODE_NOT_FOUND)]
                ELSE IF child.unwinding
                THEN [child EXCEPT !.pc = "exited", !.status = PanicStatus]
                ELSE [child EXCEPT !.pc = "main", !.inMain = TRUE]
    /\ UNCHANGED <<stplProd, parent, inPipe, inWriterOpen, outPipe>>

\* handle_dynamic_impl: one read() of stdin().read_to_end(&mut v).
ChildRead ==
    /\ child.pc = "read"
    /\ ~child.stdinErr
    /\ inPipe # << >>
    /\ child' = [child EXCEPT !.v = @ \o inPipe, !.reads = @ + 1]
    /\ inPipe' = << >>
    /\ UNCHANGED <<stplProd, parent, inWriterOpen, outPipe>>

StdinAtEofMutEmpty == inPipe = << >>

\* read() returns 0 (end of input): the pipe is empty and its write end
\* is closed; with the write end open the read blocks.
StdinAtEof == inPipe = << >> /\ ~inWriterOpen

ChildReadEof ==
    /\ child.pc = "read"
    /\ ~child.stdinErr
    /\ StdinAtEof
    /\ child' = [child EXCEPT !.pc = "deser", !.reads = @ + 1, !.sawEof = TRUE]
    /\ UNCHANGED <<stplProd, parent, inPipe, inWriterOpen, outPipe>>

\* read() fails: `?` returns the error before anything is rendered.
ChildReadFails ==
    /\ child.pc = "read"
    /\ child.stdinErr
    /\ child' = [child EXCEPT !.pc = "finish", !.renderRes = "err", !.reads = @ + 1]
    /\ UNCHANGED <<stplProd, parent, inPipe, inWriterOpen, outPipe>>

\* bincode::deserialize(&v[..]) into the template's argument type.
ChildDeserialize ==
    /\ child.pc = "deser"
    /\ LET d == Deserialize(ArgType(child.tpl), child.v)
       IN  child' = IF d.ok
                    THEN [child EXCEPT !.pc = "render", !.arg = d.val, !.rIdx = 1, !.bufw = << >>]
                    ELSE [child EXCEPT !.pc = "finish", !.renderRes = "err"]
    /\ UNCHANGED <<stplProd, parent, inPipe, inWriterOpen, outPipe>>

\* template.render(&arg, &mut out): the next write of the render, through
\* the BufWriter.
ChildRenderWrite ==
    /\ child.pc = "render"
    /\ child.fdq = << >>
    /\ child.rIdx <= Len(RenderFn(child.tpl, child.arg).chunks)
    /\ LET w == BufWrite(child.bufw, RenderFn(child.tpl, child.arg).chunks[child.rIdx])
       IN  child' = [child EXCEPT !.bufw = w.buf, !.fdq = w.fd, !.rIdx = @ + 1]
    /\ UNCHANGED <<stplProd, parent, inPipe, inWriterOpen, outPipe>>

\* What the render function's own end makes of the process: a panic of an
\* abort build ends it at once; otherwise the BufWriter is dropped next
\* (by the return, or by the unwinding).
ChildRenderEnd ==
    /\ child.pc = "render"
    /\ child.fdq = << >>
    /\ child.rIdx > Len(RenderFn(child.tpl, child.arg).chunks)
    /\ LET end == RenderFn(child.tpl, child.arg).end
       IN  child' = IF end = "panic" /\ child.prog.panic = "abort"
                    THEN [child EXCEPT !.pc = "exited", !.status = AbortStatus,
                                       !.stderr = Append(@, PanicLine)]
                    ELSE IF end = "panic"
                    THEN [child EXCEPT !.pc = "dropbuf", !.renderRes = "panic",
                                       !.stderr = Append(@, PanicLine)]
                    ELSE [child EXCEPT !.pc = "dropbuf", !.renderRes = end]
    /\ UNCHANGED <<stplProd, parent, inPipe, inWriterOpen, outPipe>>

\* The write of the pending bytes to the stdout descriptor.  A failure
\* while rendering is the render's io::Error; a failure of the flush that
\* BufWriter's drop makes is dropped with it.  A pipe takes what fits and
\* blocks the writer for the rest.
ChildFdWrite ==
    /\ child.pc \in {"render", "finish"}
    /\ child.fdq # << >>
    /\ IF ~child.stdoutOk
       THEN /\ child' = IF child.pc = "render"
                        THEN [child EXCEPT !.fdq = << >>, !.wfail = TRUE, !.pc = "dropbuf", !.renderRes = "err"]
                        ELSE [child EXCEPT !.fdq = << >>, !.wfail = TRUE]
            /\ UNCHANGED outPipe
       ELSE IF child.launcher = "client"
       THEN /\ Len(outPipe) < PipeCap
            /\ LET n == Min(PipeCap - Len(outPipe), Len(child.fdq))
               IN  /\ outPipe' = outPipe \o Take(child.fdq, n)
                   /\ child' = [child EXCEPT !.fdq = DropN(@, n), !.stdout = @ \o Take(child.fdq, n)]
       ELSE /\ child' = [child EXCEPT !.fdq = << >>, !.stdout = @ \o child.fdq]
            /\ UNCHANGED outPipe
    /\ UNCHANGED <<stplProd, parent, inPipe, inWriterOpen>>

\* `out` goes out of scope at the end of handle_dynamic_impl, whatever the
\* result: BufWriter's drop flushes what the buffer holds.
ChildDropBuf ==
    /\ child.pc = "dropbuf"
    /\ child' = [child EXCEPT !.pc = "finish", !.fdq = child.bufw, !.bufw = << >>]
    /\ UNCHANGED <<stplProd, parent, inPipe, inWriterOpen, outPipe>>

\* The match in template(): Ok(_) => exit(EXIT_CODE_SUCCESS), Err(e) =>
\* exit(EXIT_CODE_FAILED).
DispatchExitCodeMutNotFound(res) == IF res = "ok" THEN EXIT_CODE_SUCCESS ELSE EXIT_CODE_NOT_FOUND

DispatchExitCode(res) == IF res = "ok" THEN EXIT_CODE_SUCCESS ELSE EXIT_CODE_FAILED

\* handle_dynamic_impl is over: template() ends the process, or the panic
\* unwinds on through template().
ChildDispatchExit ==
    /\ child.pc = "finish"
    /\ child.fdq = << >>
    /\ child' = IF child.renderRes = "panic"
                THEN [child EXCEPT !.pc = "unwind", !.unwinding = TRUE]
                ELSE [child EXCEPT !.pc = "exited",
                                   !.status = Exited(DispatchExitCode(child.renderRes)),
                                   !.stderr = IF child.renderRes = "ok" THEN @ ELSE Append(@, FailedLine)]
    /\ UNCHANGED <<stplProd, parent, inPipe, inWriterOpen, outPipe>>

\* The program's own logic (all of main of a program without the guard)
\* ends with a code of its own.
MainExit ==
    /\ child.pc = "main"
    /\ \E code \in MainExitCodes : child' = [child EXCEPT !.pc = "exited", !.status = Exited(code)]
    /\ UNCHANGED <<stplProd, parent, inPipe, inWriterOpen, outPipe>>

\* It is ended by a signal.
MainKilled ==
    /\ child.pc = "main"
    /\ child' = [child EXCEPT !.pc = "exited", !.status = Signaled(9)]
    /\ UNCHANGED <<stplProd, parent, inPipe, inWriterOpen, outPipe>>

Next ==
    \/ CallRenderDynamic
    \/ CallRenderDynamicSelf
    \/ ClientSpawn
    \/ ClientWrite
    \/ ClientFlush
    \/ ClientCloseStdin
    \/ ClientDrain
    \/ ClientWait
    \/ ClientWaitFails
    \/ DirectLaunch
    \/ ChildTemplate
    \/ HandleDynamicDrop
    \/ ChildRead
    \/ ChildReadEof
    \/ ChildReadFails
    \/ ChildDeserialize
    \/ ChildRenderWrite
    \/ ChildRenderEnd
    \/ ChildFdWrite
    \/ ChildDropBuf
    \/ ChildDispatchExit
    \/ MainExit
    \/ MainKilled

Spec == Init /\ [][Next]_vars

\* A step of the calling thread inside a call, and a step of the child
\* process.  Both are running programs: the thread blocks only in write()
\* and in wait_with_output, the child only in read() and write().
ClientStep ==
    \/ ClientSpawn
    \/ ClientWrite
    \/ ClientFlush
    \/ ClientCloseStdin
    \/ ClientDrain
    \/ ClientWait
    \/ ClientWaitFails

ChildStep ==
    \/ ChildTemplate
    \/ HandleDynamicDrop
    \/ ChildRead
    \/ ChildReadEof
    \/ ChildReadFails
    \/ ChildDeserialize
    \/ ChildRenderWrite
    \/ ChildRenderEnd
    \/ ChildFdWrite
    \/ ChildDropBuf
    \/ ChildDispatchExit
    \/ MainExit
    \/ MainKilled

\* The operating system schedules both processes.
FairSpec == Init /\ [][Next]_vars /\ WF_vars(ClientStep) /\ WF_vars(ChildStep)

\* =============================================================== claims
\* The call in progress went through the child-process bridge.
Dyn == parent.isProd = "no"

\* `child` is the process the call in progress spawned.
Current == child.launcher = "client" /\ child.call = parent.calls

\* wait_with_output returned a status, which the match classified.
Classified == Dyn /\ Current /\ parent.pc = "returned" /\ parent.result.kind # "Io"

Registered(chain, k) == \E i \in 1..Len(chain) : Key(chain[i]) = k

\* The chain registers template t, and no other template under t's key.
RegisteredAlone(chain, t) ==
    /\ \E i \in 1..Len(chain) : chain[i] = t
    /\ \A i \in 1..Len(chain) : Key(chain[i]) = Key(t) => chain[i] = t

\* C1: whatever way the child ended, the outcome is decided by its exit code
\* alone: Ok(stdout) exactly for 66, NotFound{key of the template} exactly
\* for 68, and Failed with the code (None for a signal), the whole stdout
\* and the stderr for everything else, exit code 0 included.
C1_ClassifiedByExitCode ==
    Classified =>
        LET r == parent.result
            st == child.status
        IN  /\ r.kind \in {"Ok", "NotFound", "Failed"}
            /\ r.kind = "Ok" <=> st = Exited(EXIT_CODE_SUCCESS)
            /\ r.kind = "NotFound" <=> st = Exited(EXIT_CODE_NOT_FOUND)
            /\ r.kind = "Ok" => r.bytes = child.stdout
            /\ r.kind = "NotFound" => r.key = Key(parent.tpl)
            /\ r.kind = "Failed" =>
                /\ r.code = StatusCode(st)
                /\ r.code.some = (st.kind = "code")
                /\ r.bytes = child.stdout
                /\ r.stderr = child.stderr

\* A child that exited 0 was classified, as Failed.
C1_Witness ==
    /\ Classified
    /\ parent.result.kind = "Failed"
    /\ child.status = Exited(0)

\* C2 as stated: for every argument (on which render_static returns at
\* all), a call with a template the child registers (alone under its key)
\* yields Ok with the static render's bytes.
C2_Original ==
    (/\ Classified
     /\ child.prog.kind = "guarded"
     /\ RegisteredAlone(child.prog.chain, parent.tpl)
     /\ RenderStatic(parent.tpl, parent.arg).end # "panic")
        => parent.result = Ok(RenderStatic(parent.tpl, parent.arg).bytes)

\* C2 amended: ... for every argument whose static render succeeds.
C2_DynamicEqualsStatic ==
    (/\ Classified
     /\ child.prog.kind = "guarded"
     /\ RegisteredAlone(child.prog.chain, parent.tpl)
     /\ RenderStatic(parent.tpl, parent.arg).end = "ok")
        => parent.result = Ok(RenderStatic(parent.tpl, parent.arg).bytes)

\* A call with a non-empty name returned the rendered bytes.
C2_Witness ==
    /\ Classified
    /\ child.prog.kind = "guarded"
    /\ RegisteredAlone(child.prog.chain, parent.tpl)
    /\ parent.arg.name # << >>
    /\ parent.tpl = "fail"
    /\ parent.result = Ok(RenderStatic(parent.tpl, parent.arg).bytes)

\* The child runs a guarded program with the channel holding a string that
\* is the key of none of its templates.
Unregistered ==
    /\ child.prog.kind = "guarded"
    /\ EnvVar(child.env).ok
    /\ ~Registered(child.prog.chain, EnvVar(child.env).val)

\* What C3 asks of such a child: it never reaches the program's own logic,
\* and it ends with NOT_FOUND and a diagnostic naming the key.
EndsNotFound ==
    /\ ~child.inMain
    /\ child.pc \in {"template", "exited"}
    /\ child.reads = 0
    /\ child.pc = "exited" =>
        /\ child.status = Exited(EXIT_CODE_NOT_FOUND)
        /\ \E i \in 1..Len(child.stderr) : child.stderr[i] = NotFoundLine(EnvVar(child.env).val)

\* C3 as stated: for any unregistered key, the empty string included.
C3_Original == Unregistered => EndsNotFound

\* C3 amended: for any unregistered key that is not the empty string.
C3_UnregisteredKeyNotFound ==
    (Unregistered /\ EnvVar(child.env).val # "") => EndsNotFound

\* A directly started child with two registrations and the key
\* "nonexistent" has ended.
C3_Witness ==
    /\ Unregistered
    /\ child.launcher = "direct"
    /\ child.env = Str("nonexistent")
    /\ Len(child.prog.chain) = 2
    /\ child.pc = "exited"

\* C4: a call with a key the guarded child does not register ends, however
\* parent and child interleave and whatever the size of the argument, by
\* returning NotFound with the key (the failure of wait() itself apart).
C4_UnregisteredCallNotFound ==
    (/\ Dyn
     /\ Current
     /\ Unregistered
     /\ parent.pc \in {"returned", "panicked"}
     /\ parent.result.kind # "Io")
        => /\ parent.pc = "returned"
           /\ parent.result = NotFound(Key(parent.tpl))

\* C5: a dispatch that ended the process with SUCCESS wrote the complete
\* rendered output to stdout.
C5_SuccessOnlyIfWritten ==
    (/\ child.pc = "exited"
     /\ child.dispatches > 0
     /\ child.status = Exited(EXIT_CODE_SUCCESS))
        => child.stdout = Concat(RenderFn(child.tpl, child.arg).chunks)

\* C6: with the channel absent, the chain of template() calls and the
\* guard's drop read no stdin, write nothing, end nothing, and control
\* reaches the program's own logic.
C6_AbsentChannelNoEffect ==
    (child.prog.kind = "guarded" /\ child.pc # "none" /\ ~child.env.set) =>
        /\ child.reads = 0
        /\ child.dispatches = 0
        /\ child.guards = 0
        /\ child.stdout = << >>
        /\ child.stderr = << >>
        /\ child.pc \in {"template", "main", "exited"}
        /\ child.pc = "template" => child.regIdx <= Len(child.prog.chain) + 1
        /\ child.pc \in {"main", "exited"} => child.inMain

\* A guarded program with two registrations, started without the channel,
\* is in its own logic.
C6_Witness ==
    /\ child.prog.kind = "guarded"
    /\ child.env = Absent
    /\ Len(child.prog.chain) = 2
    /\ child.pc = "main"
    /\ child.inMain

\* C7: with the channel holding a non-empty key, at most one registration
\* dispatches; a matching template() ends the process with SUCCESS or
\* FAILED and the guard never runs; and when none matches, none reads
\* stdin or writes stdout and the guard's not-found path runs exactly once.
\* (Stated of the processes that end by exiting, not by a signal.)
C7_OneDispatchOrOneGuard ==
    (/\ child.prog.kind = "guarded"
     /\ EnvVar(child.env).ok
     /\ EnvVar(child.env).val # ""
     /\ child.status.kind # "signal") =>
        /\ child.dispatches <= 1
        /\ child.dispatches = 1 =>
            /\ child.guards = 0
            /\ child.pc = "exited" =>
                child.status \in {Exited(EXIT_CODE_SUCCESS), Exited(EXIT_CODE_FAILED)}
        /\ child.dispatches = 0 =>
            /\ child.reads = 0
            /\ child.stdout = << >>
            /\ child.guards <= 1
            /\ child.pc = "exited" => child.guards = 1

\* C8 as stated: with STPL_PROD set to any value the calls behave like
\* render_static and spawn nothing; unset, they go through the bridge.
C8_Original ==
    parent.calls > 0 =>
        /\ stplProd.set <=> parent.isProd = "yes"
        /\ stplProd.set =>
            /\ parent.spawned = 0
            /\ child.pc = "none"
            /\ parent.pc \in {"returned", "panicked"}

\* C8 amended: with STPL_PROD set to any valid-Unicode value (the empty
\* string included) the calls behave like render_static: nothing is
\* spawned, Ok carries the static render's bytes and a render error is Io;
\* otherwise every call goes through the bridge.
C8_ProdIsStatic ==
    parent.calls > 0 =>
        LET rs == RenderStatic(parent.tpl, parent.arg)
        IN  /\ (stplProd.set /\ stplProd.unicode) <=> parent.isProd = "yes"
            /\ parent.isProd = "yes" =>
                /\ parent.spawned = 0
                /\ child.pc = "none"
                /\ parent.pc \in {"returned", "panicked"}
                /\ rs.end = "ok" => (parent.pc = "returned" /\ parent.result = Ok(rs.bytes))
                /\ rs.end = "err" => (parent.pc = "returned" /\ parent.result = Io)
                /\ rs.end = "panic" => parent.pc = "panicked"
            /\ parent.isProd = "no" =>
                /\ parent.pc # "spawn" => (parent.spawned = parent.calls \/ parent.pc = "panicked")
                /\ parent.pc = "returned" => Current

\* With STPL_PROD set to the empty string, a second call returned the
\* static render of a non-empty name.
C8_Witness ==
    /\ stplProd = Str("")
    /\ parent.calls = 2
    /\ parent.pc = "returned"
    /\ parent.tpl = "home"
    /\ parent.arg.name # << >>
    /\ parent.result = Ok(Welcome \o parent.arg.name)

\* C9: when a call through the bridge has returned, with any outcome, the
\* child it spawned has exited.
C9_ReturnedImpliesExited ==
    (Dyn /\ parent.pc = "returned") => (Current /\ child.pc = "exited")

\* A call whose child dispatched returned Io.
C9_Witness ==
    /\ Dyn
    /\ parent.pc = "returned"
    /\ parent.result.kind = "Io"
    /\ child.prog.kind = "guarded"
    /\ child.dispatches = 1

\* C10: the order across the process boundary.  The child's dispatch
\* deserializes and renders only after it has read the whole serialized
\* argument up to end of input; the client closes stdin (line 728) only
\* after the whole buffer was written; and bytes are returned as Ok only
\* after the child has exited, and are all of its stdout: the complete
\* render of the dispatched template.
C10_CompleteBeforeDelivery ==
    (Dyn /\ Current) =>
        /\ child.pc \in {"deser", "render", "dropbuf"} =>
            /\ child.sawEof
            /\ child.v = parent.encoded
        /\ child.pc \in {"render", "dropbuf"} =>
            /\ child.arg = Deserialize(ArgType(child.tpl), parent.encoded).val
            /\ ArgType(child.tpl) = parent.arg.type => child.arg = parent.arg
        /\ (child.prog.kind = "guarded" /\ child.stdout # << >>) =>
            (child.sawEof /\ child.v = parent.encoded)
        /\ child.sawEof => (~inWriterOpen /\ parent.pc \in {"wait", "returned"})
        /\ parent.pc \in {"wait", "returned"} =>
            (~inWriterOpen /\ parent.written = Len(parent.encoded))
        /\ parent.pc \in {"write", "close"} => inWriterOpen
        /\ parent.result.kind = "Ok" =>
            /\ child.pc = "exited"
            /\ outPipe = << >>
            /\ parent.result.bytes = child.stdout
            /\ child.dispatches = 1 =>
                parent.result.bytes = Concat(RenderFn(child.tpl, child.arg).chunks)

\* A call whose argument and whose output are both larger than a pipe
\* returned Ok.
C10_Witness ==
    /\ Dyn
    /\ Current
    /\ parent.result.kind = "Ok"
    /\ Len(parent.encoded) > PipeCap
    /\ Len(parent.result.bytes) > PipeCap

\* The child of the call in progress ran a guarded program, dispatched the
\* requested key and decoded the argument: the render function was called.
RenderCalled ==
    /\ Classified
    /\ child.prog.kind = "guarded"
    /\ child.dispatches = 1
    /\ child.sawEof
    /\ Deserialize(ArgType(child.tpl), child.v).ok

\* C11: when the key matched and the argument decoded but the render
\* function panicked or returned an error, the client returns Failed with
\* exit code Some(EXIT_CODE_FAILED) and a stderr that is not empty.
\* (Stated of the builds that unwind on a panic, the default.)
C11_RenderFaultIsFailed ==
    (/\ RenderCalled
     /\ child.prog.panic = "unwind"
     /\ RenderFn(child.tpl, child.arg).end \in {"err", "panic"}) =>
        /\ parent.result.kind = "Failed"
        /\ parent.result.code = [some |-> TRUE, n |-> EXIT_CODE_FAILED]
        /\ parent.result.stderr # << >>

\* `s` is the first Len(s) elements of `full`.
IsPrefix(s, full) == Len(s) <= Len(full) /\ Take(full, Len(s)) = s

\* C12 as stated: a child that ended with FAILED or NOT_FOUND has written
\* no byte to stdout.  (Stated of the runs without a panic.)
C12_Original ==
    (/\ child.prog.kind = "guarded"
     /\ child.pc = "exited"
     /\ child.renderRes # "panic"
     /\ child.status \in {Exited(EXIT_CODE_FAILED), Exited(EXIT_CODE_NOT_FOUND)})
        => child.stdout = << >>

\* C12 amended: the child writes to stdout only from the render step of a
\* dispatch.  What stdout holds is at every moment a prefix of the matched
\* template's render of the decoded argument; it is empty in every child
\* that did not dispatch (the guard's NOT_FOUND) and in every child whose
\* read or decoding of stdin failed; a child whose render failed midway
\* ends with FAILED and the bytes written until then.
C12_StdoutOnlyFromRender ==
    child.prog.kind = "guarded" =>
        /\ child.stdout # << >> =>
            /\ child.dispatches = 1
            /\ child.sawEof
            /\ Deserialize(ArgType(child.tpl), child.v).ok
            /\ IsPrefix(child.stdout, Concat(RenderFn(child.tpl, child.arg).chunks))
        /\ child.dispatches = 0 => child.stdout = << >>
        /\ (/\ child.pc = "exited"
            /\ child.dispatches = 1
            /\ child.status = Exited(EXIT_CODE_SUCCESS)
            /\ child.stdoutOk) =>
            child.stdout = Concat(RenderFn(child.tpl, child.arg).chunks)

\* A call returned Failed with code FAILED and a stdout that is not empty:
\* what the render wrote before it returned its error.
C12_Witness ==
    /\ Classified
    /\ parent.result.kind = "Failed"
    /\ parent.result.code = [some |-> TRUE, n |-> EXIT_CODE_FAILED]
    /\ parent.result.bytes = X
    /\ child.stdout = X

\* The child dispatched, read its stdin to the end, and what it read does
\* not decode into the argument type of the matched template.
DecodeFails ==
    /\ child.prog.kind = "guarded"
    /\ child.dispatches = 1
    /\ child.sawEof
    /\ ~Deserialize(ArgType(child.tpl), child.v).ok

\* C13: when the key matched but the bytes read from stdin do not decode
\* into the template's argument type, the child never calls the render
\* function and writes nothing to stdout; it prints a diagnostic to stderr
\* and ends with EXIT_CODE_FAILED, and the client returns Failed with
\* Some(EXIT_CODE_FAILED), as it does for a render fault.
C13_DecodeFaultIsFailed ==
    DecodeFails =>
        /\ child.pc \in {"deser", "finish", "exited"}
        /\ child.rIdx = 1
        /\ child.bufw = << >> /\ child.fdq = << >>
        /\ child.stdout = << >>
        /\ child.pc = "exited" =>
            /\ child.status = Exited(EXIT_CODE_FAILED)
            /\ child.stderr = <<FailedLine>>
        /\ (Classified /\ Current) =>
            parent.result = Failed([some |-> TRUE, n |-> EXIT_CODE_FAILED], << >>, <<FailedLine>>)

\* A call with a template that takes () reached a child whose template of
\* the same key takes Data: the empty encoding did not decode, and the call
\* returned Failed with code FAILED.
C13_Witness ==
    /\ DecodeFails
    /\ Classified
    /\ parent.tpl = "stale"
    /\ child.tpl = "home"
    /\ parent.result.kind = "Failed"
    /\ parent.result.code = [some |-> TRUE, n |-> EXIT_CODE_FAILED]

\* The position of the calling thread in the call in progress, and the
\* children spawned so far, for the calls that go through the bridge.
SpawnedOncePerCall ==
    Dyn =>
        /\ parent.pc = "spawn" => (parent.spawned = parent.calls - 1 /\ ~ChildLive)
        /\ parent.pc \in {"write", "close", "wait", "returned"} =>
            (parent.spawned = parent.calls /\ Current)
        /\ parent.pc = "returned" => (parent.result.kind # "none" /\ child.pc = "exited")
        /\ parent.pc # "returned" => parent.result = NoResult
        /\ parent.pc = "panicked" => parent.spawned \in {parent.calls - 1, parent.calls}

\* A step spawns at most one child, and only from the spawn of a call; an
\* outcome, once reported, stays until the next call.
SpawnAndReportOnce ==
    /\ parent'.spawned # parent.spawned =>
        (parent.pc = "spawn" /\ parent'.spawned = parent.spawned + 1 /\ ~ChildLive)
    /\ (Dyn /\ parent.result # NoResult /\ parent'.result # parent.result) =>
        (parent'.calls = parent.calls + 1 /\ parent'.result = NoResult)

\* C14: there is no retry.  Each call through the bridge spawns exactly one
\* child, whatever outcome it reports, and reports one outcome; after n
\* calls n children were spawned, each after the one before had exited.
C14_OneChildPerCall == [](SpawnedOncePerCall) /\ [][SpawnAndReportOnce]_vars

\* A second call returned, after a first call that had returned NotFound,
\* and two children were spawned.
C14_Witness ==
    /\ Dyn
    /\ parent.calls = 2
    /\ parent.spawned = 2
    /\ parent.pc = "returned"
    /\ parent.result.kind = "NotFound"

\* C15: when the executable cannot be spawned the call reports no outcome:
\* the calling thread panics with "failed to execute child"; a failed write
\* of the argument to the child's stdin panics likewise (the flush of a
\* pipe does nothing and cannot fail).  On the path through the bridge Io
\* is reported only when the wait for the child, a child that was spawned
\* and given its whole argument, has failed.
C15_SpawnFaultPanics ==
    Dyn =>
        /\ parent.pc = "panicked" <=> parent.panicMsg # ""
        /\ parent.pc = "panicked" =>
            /\ parent.result = NoResult
            /\ parent.panicMsg \in {"failed to execute child", "failed to write to stdin"}
        /\ (parent.pc # "spawn" /\ parent.spawned < parent.calls) =>
            (parent.pc = "panicked" /\ parent.panicMsg = "failed to execute child")
        /\ parent.panicMsg = "failed to execute child" => parent.spawned = parent.calls - 1
        /\ parent.panicMsg = "failed to write to stdin" =>
            /\ Current
            /\ child.pc = "exited"
            /\ parent.written < Len(parent.encoded)
        /\ parent.result.kind = "Io" =>
            /\ parent.pc = "returned"
            /\ Current
            /\ child.pc = "exited"
            /\ parent.written = Len(parent.encoded)
            /\ ~inWriterOpen

\* The second call found no executable at the path: the thread panicked,
\* after a first call that had spawned a child.
C15_Witness ==
    /\ Dyn
    /\ parent.calls = 2
    /\ parent.spawned = 1
    /\ parent.pc = "panicked"
    /\ parent.panicMsg = "failed to execute child"
    /\ parent.result = NoResult

\* During a call through the bridge the child's channel holds the key of
\* the call, whatever the parent's own channel holds, and the bytes sent
\* are the encoding of the argument the caller passed.
KeyOnlyInChildEnv ==
    /\ (Dyn /\ Current) => child.env = Str(Key(parent.tpl))
    /\ (Dyn /\ parent.pc \notin {"idle", "panicked"}) => parent.encoded = Serialize(parent.arg)

\* No step writes the parent's own channel; no step of a call changes the
\* argument of the call; no step of a child writes the child's channel.
ChannelAndArgumentFrame ==
    /\ parent'.channel = parent.channel
    /\ parent'.calls = parent.calls => (parent'.arg = parent.arg /\ parent'.tpl = parent.tpl)
    /\ (child.pc # "none" /\ child'.pc # "none" /\ parent.pc # "spawn") => child'.env = child.env

\* C16: the key travels only in the spawned child's environment.  A call
\* leaves the parent's own value of the environment channel as it was, and
\* leaves the argument as it was; the child's dispatch and guard never
\* write the channel.
C16_KeyOnlyToChild == [](KeyOnlyInChildEnv) /\ [][ChannelAndArgumentFrame]_vars

\* Two calls have returned in a parent whose own channel holds another key
\* than the one its last child was given.
C16_Witness ==
    /\ Dyn
    /\ parent.channel = Str("nonexistent")
    /\ parent.calls = 2
    /\ parent.pc = "returned"
    /\ Current
    /\ child.env = Str("home")
    /\ child.dispatches = 1

\* A call is in progress against a child that follows the dispatch
\* protocol: a guarded program that registers the key of the call.
ProtocolCall ==
    /\ Dyn
    /\ Current
    /\ parent.pc \in {"write", "close", "wait"}
    /\ child.prog.kind = "guarded"
    /\ Registered(child.prog.chain, Key(parent.tpl))

\* C17: against a child that follows the dispatch protocol the client's
\* write-all-then-wait never deadlocks: whatever the sizes of the argument
\* and of the output are against the capacity of a pipe, the call returns.
C17_CallReturns == ProtocolCall ~> parent.pc = "returned"

\* A call whose argument and whose output both exceed the capacity of a
\* pipe is in progress, its writer blocked on a full pipe.
C17_Witness ==
    /\ ProtocolCall
    /\ parent.pc = "write"
    /\ Len(parent.encoded) > PipeCap
    /\ Len(inPipe) = PipeCap
    /\ Len(Concat(RenderFn(parent.tpl, parent.arg).chunks)) > PipeCap
    /\ RegisteredAlone(child.prog.chain, parent.tpl)

\* The registrations of the chain whose key is the value of the channel.
Matching(chain, raw) == {i \in 1..Len(chain) : KeyMatches(raw, chain[i])}

\* The first of them in chain order.
FirstMatch(chain, raw) ==
    CHOOSE i \in Matching(chain, raw) : \A j \in Matching(chain, raw) : i <= j

\* C18: when several templates of one chain share the requested key, the
\* one registered first dispatches: its argument type decodes stdin and
\* its render function produces the output; the registrations after it
\* are never consulted.
C18_FirstRegisteredWins ==
    (/\ child.prog.kind = "guarded"
     /\ child.pc # "none"
     /\ Matching(child.prog.chain, child.env) # {}) =>
        LET f == FirstMatch(child.prog.chain, child.env)
            t == child.prog.chain[f]
        IN  /\ child.regIdx <= f
            /\ child.dispatches <= 1
            /\ child.dispatches = 1 <=> child.pc # "template"
            /\ child.dispatches = 1 => (child.regIdx = f /\ child.tpl = t)
            /\ child.pc \in {"render", "dropbuf"} =>
                child.arg = Deserialize(ArgType(t), child.v).val
            /\ child.stdout # << >> =>
                IsPrefix(child.stdout, Concat(RenderFn(t, child.arg).chunks))
            /\ (child.pc = "exited" /\ child.status = Exited(EXIT_CODE_SUCCESS) /\ child.stdoutOk) =>
                child.stdout = Concat(RenderFn(t, child.arg).chunks)

\* A call for "home" reached a child that registers "alt" and then "home"
\* under the same key, and returned what "alt" renders.
C18_Witness ==
    /\ Classified
    /\ parent.tpl = "home"
    /\ parent.arg.name # << >>
    /\ child.prog.chain = <<"alt", "home">>
    /\ child.tpl = "alt"
    /\ parent.result = Ok(Bye \o parent.arg.name)

====
